---- MODULE Spec2Model ----
(***************************************************************************)
(* State-machine model of the ShopSight data pipeline                      *)
(* (backend/scripts/download_data.py, backend/utils/data_loader.py) and of *)
(* the Query Service's table loading                                       *)
(* (backend/services/analytics_service.py).                                *)
(*                                                                         *)
(* Values.  An article_id is a natural number (the H&M parquet files carry *)
(* article_id as int64); a DataFrame is a record                           *)
(*    [cols, article_id_dtype, rows]                                       *)
(* whose article_id_dtype is the dtype of its article_id column ("int" for *)
(* the real data, "str" where the code builds the column from str(...)).   *)
(* A product_type_name is a natural number standing for the name's rank in *)
(* lexicographic order; 0 stands for a null name.  A calendar day is a     *)
(* natural number.  Prices are whole currency units, so that sums are      *)
(* exact; avg_price is kept as the fraction [num, den].                    *)
(***************************************************************************)
EXTENDS Integers, Sequences, FiniteSets, TLC

(***************************************************************************)
(* Bounds of the model.  target_count (150 in the source),                 *)
(* products_per_category (10), nlargest_extra (50), batch_size (100000)    *)
(* and sample_head (200) are the source's literals scaled down so that the *)
(* cases they separate (quota union above or below the target, a key that  *)
(* spans batches, a catalog longer than the sampled head) occur within the *)
(* bounded inputs.                                                         *)
(***************************************************************************)
MaxRows == 3
MaxRuns == 2
target_count == 2
products_per_category == 1
nlargest_extra == 1
batch_size == 2
sample_head == 1

ArticleIds == {1, 2, 3}
ProductTypes == {1, 2, 3}
NoType == 0
Dates == {1, 2}
Prices == {0, 1}
Seeds == {0, 1}

Min(a, b) == IF a < b THEN a ELSE b

Range(s) == {s[k] : k \in DOMAIN s}

RECURSIVE Flatten(_)
Flatten(ss) == IF ss = <<>> THEN <<>> ELSE Head(ss) \o Flatten(Tail(ss))

Product(i, t) == [article_id |-> i, product_type_name |-> t]

Txn(i, d, p) == [article_id |-> i, t_dat |-> d, price |-> p]

EmptyFrame == [cols |-> <<>>, article_id_dtype |-> "none", rows |-> <<>>]

Ids(df) == {df.rows[k].article_id : k \in DOMAIN df.rows}

(***************************************************************************)
(* Batch Reader: dataset.to_batches(batch_size=...) yields, file by file,  *)
(* consecutive chunks of at most batch_size rows; a batch never spans two  *)
(* files.                                                                  *)
(***************************************************************************)
RECURSIVE Chunks(_)
Chunks(rows) ==
    IF rows = <<>> THEN <<>>
    ELSE IF Len(rows) <= batch_size THEN <<rows>>
    ELSE <<SubSeq(rows, 1, batch_size)>>
             \o Chunks(SubSeq(rows, batch_size + 1, Len(rows)))

RECURSIVE to_batches(_)
to_batches(files) ==
    IF files = <<>> THEN <<>>
    ELSE Chunks(Head(files)) \o to_batches(Tail(files))

(***************************************************************************)
(* Revenue Ranker, first pass: per batch, groupby('article_id')['price']   *)
(* .sum() added into the running product_revenue map.                      *)
(***************************************************************************)
RECURSIVE SumPrice(_)
SumPrice(rows) ==
    IF rows = <<>> THEN 0 ELSE Head(rows).price + SumPrice(Tail(rows))

GroupRevenue(df) ==
    [i \in {df[k].article_id : k \in DOMAIN df} |->
        SumPrice(SelectSeq(df, LAMBDA r : r.article_id = i))]

EmptyRevenue == [i \in {} |-> 0]

OverwriteRevenue(pr, df) ==
    LET g == GroupRevenue(df)
    IN  [i \in (DOMAIN pr) \cup (DOMAIN g) |->
            IF i \in DOMAIN g THEN g[i] ELSE pr[i]]

AccumulateRevenue(pr, df) ==
    LET g == GroupRevenue(df)
    IN  [i \in (DOMAIN pr) \cup (DOMAIN g) |->
            (IF i \in DOMAIN pr THEN pr[i] ELSE 0)
          + (IF i \in DOMAIN g THEN g[i] ELSE 0)]

(***************************************************************************)
(* Revenue Ranker, selection.                                              *)
(***************************************************************************)
WithRevenue(p, r) ==
    [article_id |-> p.article_id,
     product_type_name |-> p.product_type_name,
     revenue |-> r]

MergeLeft(products, pr) ==
    [k \in DOMAIN products |->
        WithRevenue(products[k],
                    IF products[k].article_id \in DOMAIN pr
                    THEN pr[products[k].article_id] ELSE 0)]

\* products_df.merge(revenue_df, on='article_id', how='inner'): the rows of
\* products_df, in their order, whose article_id has a revenue entry.
MergeInner(products, pr) ==
    LET kept == SelectSeq(products, LAMBDA p : p.article_id \in DOMAIN pr)
    IN  [k \in DOMAIN kept |-> WithRevenue(kept[k], pr[kept[k].article_id])]

RemoveAt(s, k) == SubSeq(s, 1, k - 1) \o SubSeq(s, k + 1, Len(s))

\* nlargest with keep='last': equal revenues in reverse frame order
RECURSIVE nlargest_last(_, _)
nlargest_last(n, df) ==
    IF n = 0 \/ df = <<>> THEN <<>>
    ELSE LET best == CHOOSE k \in DOMAIN df :
                        \A j \in DOMAIN df :
                            \/ df[j].revenue < df[k].revenue
                            \/ df[j].revenue = df[k].revenue /\ j <= k
         IN  <<df[best]>> \o nlargest_last(n - 1, RemoveAt(df, best))

\* DataFrame.nlargest(n, 'revenue') (keep='first'): descending revenue, equal
\* revenues in the order of the frame.
RECURSIVE nlargest(_, _)
nlargest(n, df) ==
    IF n = 0 \/ df = <<>> THEN <<>>
    ELSE LET best == CHOOSE k \in DOMAIN df :
                        \A j \in DOMAIN df :
                            \/ df[j].revenue < df[k].revenue
                            \/ df[j].revenue = df[k].revenue /\ k <= j
         IN  <<df[best]>> \o nlargest(n - 1, RemoveAt(df, best))

ArticleIdList(df) == [k \in DOMAIN df |-> df[k].article_id]

RECURSIVE SortedSeq(_)
SortedSeq(S) ==
    IF S = {} THEN <<>>
    ELSE LET m == CHOOSE x \in S : \A y \in S : x <= y
         IN  <<m>> \o SortedSeq(S \ {m})

\* groupby(..., sort=False): the groups in the order their keys first occur
GroupKeysUnsorted(pwr) ==
    LET first == {k \in DOMAIN pwr :
                     /\ pwr[k].product_type_name /= NoType
                     /\ \A j \in 1..(k - 1) :
                            pwr[j].product_type_name /= pwr[k].product_type_name}
        idx == SortedSeq(first)
    IN  [n \in DOMAIN idx |-> pwr[idx[n]].product_type_name]

\* groupby('product_type_name'): the groups in sorted key order; rows with a
\* null key belong to no group.
GroupKeys(pwr) ==
    SortedSeq({pwr[k].product_type_name : k \in DOMAIN pwr} \ {NoType})

RECURSIVE SelectPerCategory(_, _)
SelectPerCategory(keys, pwr) ==
    IF keys = <<>> THEN <<>>
    ELSE LET group == SelectSeq(pwr,
                          LAMBDA p : p.product_type_name = Head(keys))
             top_in_category == nlargest(products_per_category, group)
         IN  ArticleIdList(top_in_category)
                 \o SelectPerCategory(Tail(keys), pwr)

\* a top-up that looks only at the `remaining` best candidates overall
TopUpShort(selected, pwr) ==
    IF Len(selected) < target_count
    THEN LET remaining == target_count - Len(selected)
             all_top == nlargest(remaining, pwr)
             additional == SelectSeq(all_top,
                               LAMBDA p : p.article_id \notin Range(selected))
         IN  selected
               \o ArticleIdList(SubSeq(additional, 1,
                                       Min(remaining, Len(additional))))
    ELSE selected

\* a top-up that replaces the selection by the best candidates overall
TopUpGlobal(selected, pwr) ==
    IF Len(selected) < target_count
    THEN ArticleIdList(nlargest(target_count, pwr))
    ELSE selected

TopUp(selected, pwr) ==
    IF Len(selected) < target_count
    THEN LET remaining == target_count - Len(selected)
             all_top == nlargest(target_count + nlargest_extra, pwr)
             additional == SelectSeq(all_top,
                               LAMBDA p : p.article_id \notin Range(selected))
         IN  selected
               \o ArticleIdList(SubSeq(additional, 1,
                                       Min(remaining, Len(additional))))
    ELSE selected

NoTruncate(selected) == selected

Truncate(selected) == SubSeq(selected, 1, Min(target_count, Len(selected)))

SelectProducts(products, pr) ==
    LET products_with_revenue == MergeInner(products, pr)
        per_category == SelectPerCategory(GroupKeys(products_with_revenue),
                                          products_with_revenue)
    IN  Truncate(TopUp(per_category, products_with_revenue))

(***************************************************************************)
(* Sales Aggregator.                                                       *)
(***************************************************************************)
NoFilter(df, target_set) == df

\* df[df['article_id'].isin(target_set)]
FilterSelected(df, target_set) ==
    SelectSeq(df, LAMBDA r : r.article_id \in target_set)

\* if not df.empty: all_transactions.append(df)
AppendBatch(all, df) == IF df = <<>> THEN all ELSE Append(all, df)

KeyLess(a, b) == a[1] < b[1] \/ (a[1] = b[1] /\ a[2] < b[2])

RECURSIVE SortedKeys(_)
SortedKeys(S) ==
    IF S = {} THEN <<>>
    ELSE LET m == CHOOSE x \in S : \A y \in S \ {x} : KeyLess(x, y)
         IN  <<m>> \o SortedKeys(S \ {m})

RealCols == <<"article_id", "date", "total_revenue", "avg_price", "units_sold">>

SyntheticCols ==
    <<"article_id", "date", "avg_price", "total_revenue", "units_sold">>

ProductCols == <<"article_id", "product_type_name">>

\* the aggregation with 'nunique' in the place of 'count'
GroupRowsDistinct(transactions_df) ==
    LET keys == {<<transactions_df[k].article_id, transactions_df[k].t_dat>> :
                    k \in DOMAIN transactions_df}
        order == SortedKeys(keys)
        group(key) == SelectSeq(transactions_df,
                          LAMBDA r : r.article_id = key[1] /\ r.t_dat = key[2])
    IN  [k \in DOMAIN order |->
            [article_id |-> order[k][1],
             date |-> order[k][2],
             total_revenue |-> SumPrice(group(order[k])),
             avg_price |-> [num |-> SumPrice(group(order[k])),
                            den |-> Len(group(order[k]))],
             units_sold |-> Cardinality({r.price : r \in Range(group(order[k]))})]]

\* groupby(['article_id', 't_dat']).agg({'price': ['sum', 'mean', 'count']}):
\* one row per key, in sorted key order.
GroupRows(transactions_df) ==
    LET keys == {<<transactions_df[k].article_id, transactions_df[k].t_dat>> :
                    k \in DOMAIN transactions_df}
        order == SortedKeys(keys)
        group(key) == SelectSeq(transactions_df,
                          LAMBDA r : r.article_id = key[1] /\ r.t_dat = key[2])
    IN  [k \in DOMAIN order |->
            [article_id |-> order[k][1],
             date |-> order[k][2],
             total_revenue |-> SumPrice(group(order[k])),
             avg_price |-> [num |-> SumPrice(group(order[k])),
                            den |-> Len(group(order[k]))],
             units_sold |-> Len(group(order[k]))]]

aggregate_sales_by_product(transactions_df) ==
    [cols |-> RealCols, article_id_dtype |-> "int",
     rows |-> GroupRows(transactions_df)]

RECURSIVE PerBatchRows(_)
PerBatchRows(all) ==
    IF all = <<>> THEN <<>>
    ELSE GroupRows(Head(all)) \o PerBatchRows(Tail(all))

AggregatePerBatch(all) ==
    [cols |-> RealCols, article_id_dtype |-> "int", rows |-> PerBatchRows(all)]

\* transactions_df = pd.concat(all_transactions, ignore_index=True)
\* sales_agg = loader.aggregate_sales_by_product(transactions_df)
ConcatAndAggregate(all) == aggregate_sales_by_product(Flatten(all))

\* products_df[products_df['article_id'].isin(sales_agg['article_id'].unique())]
ProductsWithSales(products, agg) ==
    [products EXCEPT !.rows =
        SelectSeq(products.rows, LAMBDA p : p.article_id \in Ids(agg))]

create_product_index(articles) ==
    [cols |-> ProductCols, article_id_dtype |-> "int", rows |-> articles]

(***************************************************************************)
(* Synthetic generators.  np.random is a pseudo-random generator: its      *)
(* draws are a function of its seed, which is the nondeterministic input.  *)
(* In the source units = int(base_sales * weekend_boost * trend_factor *   *)
(* uniform(0.7, 1.3)) with base_sales >= 5, weekend_boost >= 1.0 and       *)
(* trend_factor >= 1 - 0.002 * 120, so units >= int(5 * 0.76 * 0.7) = 2    *)
(* and every day of the window yields a record.  The window of 121 days is *)
(* scaled to Dates.                                                        *)
(***************************************************************************)
\* units drawn without the lower bound of the generator
SampleUnitsFromZero(seed, i, d) == (seed + i + d) % 2

SampleUnits(seed, i, d) == 2 + ((seed + i + d) % 2)

SamplePrice(seed, i, d) == 20 + ((seed + d) % 2)

SampleRows(ids, seed) ==
    LET order == SortedKeys(ids \X Dates)
    IN  [k \in DOMAIN order |->
            LET i == order[k][1]
                d == order[k][2]
            IN  [article_id |-> i,
                 date |-> d,
                 total_revenue |-> SamplePrice(seed, i, d) * SampleUnits(seed, i, d),
                 avg_price |-> [num |-> SamplePrice(seed, i, d), den |-> 1],
                 units_sold |-> SampleUnits(seed, i, d)]]

\* sample_products = products_df.head(200) if len(products_df) > 200
\*                   else products_df
generate_sample_sales_for_products(products, seed) ==
    LET sample_products ==
            IF Len(products.rows) > sample_head
            THEN SubSeq(products.rows, 1, sample_head)
            ELSE products.rows
    IN  [cols |-> SyntheticCols, article_id_dtype |-> "str",
         rows |-> SampleRows(Range(ArticleIdList(sample_products)), seed)]

SampleCatalog == <<Product(1, 2), Product(2, 1)>>

create_sample_products ==
    [cols |-> ProductCols, article_id_dtype |-> "str", rows |-> SampleCatalog]

create_sample_sales(seed) ==
    [cols |-> SyntheticCols, article_id_dtype |-> "str",
     rows |-> SampleRows(Range(ArticleIdList(SampleCatalog)), seed)]

(***************************************************************************)
(* State.                                                                  *)
(***************************************************************************)
VARIABLES
    s3_articles,        \* the catalog file in the bucket: a sequence of products
    s3_transactions,    \* the transaction files in the bucket, each a sequence of rows
    s3_columns,         \* the columns the transaction files have
    pc,                 \* position of main / try_download_from_s3
    run,                \* number of the current pipeline run
    in_main,            \* TRUE once try_download_from_s3 has returned False
    transaction_files,  \* the listed transaction files (indices into s3_transactions)
    transactions_dir,   \* the files present in data/transactions (kept across runs)
    downloaded_count,
    products_df,
    batches,            \* the batches of the pass in progress
    batch_i,            \* index of the next batch of the pass in progress
    product_revenue,
    selected_products,
    all_transactions,
    sales_agg,
    method,             \* history: the path that produced sales_agg
    disk,               \* data/products.parquet and data/sales.parquet
    disk_before,        \* history: disk when the current run started
    write_failed,       \* history: a to_parquet call of the current run raised
    catalog_loaded,     \* history: the current run downloaded the articles file
    svc                 \* the Query Service process

inputs == <<s3_articles, s3_transactions, s3_columns>>

locals == <<transaction_files, downloaded_count, products_df, batches, batch_i,
            product_revenue, selected_products, all_transactions, sales_agg,
            method>>

history == <<disk_before, write_failed, catalog_loaded>>

vars == <<s3_articles, s3_transactions, s3_columns, pc, run, in_main, transaction_files,
          transactions_dir, downloaded_count, products_df, batches, batch_i,
          product_revenue, selected_products, all_transactions, sales_agg,
          method, disk, disk_before, write_failed, catalog_loaded, svc>>

Tables == {"products", "sales"}

NoFile == [state |-> "absent", table |-> EmptyFrame, gen |-> 0, method |-> "none"]

PartialFile == [state |-> "partial", table |-> EmptyFrame, gen |-> 0, method |-> "none"]

NoService ==
    [pc |-> "none", products_df |-> EmptyFrame, sales_df |-> EmptyFrame,
     products_gen |-> 0, sales_gen |-> 0, read_partial |-> FALSE,
     files_missing |-> FALSE, response |-> <<>>]

(***************************************************************************)
(* Input domains.                                                          *)
(***************************************************************************)
SeqsUpTo(S, n) == UNION {[1..k -> S] : k \in 0..n}

\* catalogs: sequences of products with pairwise distinct article_ids
Catalogs(ids, types) ==
    {c \in SeqsUpTo({Product(i, t) : i \in ids, t \in types}, Cardinality(ids)) :
        \A j, k \in DOMAIN c : j /= k => c[j].article_id /= c[k].article_id}

\* the ways to cut a sequence of rows into consecutive non-empty files
RECURSIVE Splits(_)
Splits(rows) ==
    IF rows = <<>> THEN {<<>>}
    ELSE UNION {{<<SubSeq(rows, 1, k)>> \o rest :
                    rest \in Splits(SubSeq(rows, k + 1, Len(rows)))} :
                k \in 1..Len(rows)}

RowSeqs(ids, dates, prices) ==
    SeqsUpTo({Txn(i, d, p) : i \in ids, d \in dates, p \in prices}, MaxRows)
        \ {<<>>}

\* every non-empty sequence of at most MaxRows rows, cut into files in every way
Logs(ids, dates, prices) ==
    UNION {Splits(rows) : rows \in RowSeqs(ids, dates, prices)}

\* the same sequences, each as one file
SingleFileLogs(ids, dates, prices) ==
    {<<rows>> : rows \in RowSeqs(ids, dates, prices)}

\* the columns the pipeline reads from a transaction file
AllColumns == {"article_id", "t_dat", "price"}

InitInputs(catalogs, logs, schemas) ==
    /\ s3_articles \in catalogs
    /\ s3_transactions \in logs
    /\ s3_columns \in schemas
    /\ pc = "start"
    /\ run = 1
    /\ in_main = FALSE
    /\ transaction_files = {}
    /\ transactions_dir = {}
    /\ downloaded_count = 0
    /\ products_df = EmptyFrame
    /\ batches = <<>>
    /\ batch_i = 1
    /\ product_revenue = EmptyRevenue
    /\ selected_products = <<>>
    /\ all_transactions = <<>>
    /\ sales_agg = EmptyFrame
    /\ method = "none"
    /\ disk = [n \in Tables |-> NoFile]
    /\ disk_before = [n \in Tables |-> NoFile]
    /\ write_failed = FALSE
    /\ catalog_loaded = FALSE
    /\ svc = NoService

\* transaction files with every column
InitWith(catalogs, logs) == InitInputs(catalogs, logs, {AllColumns})

(***************************************************************************)
(* try_download_from_s3.  An exception raised inside its try block is      *)
(* caught at line 358 and the function returns False (pc = "fallback").    *)
(***************************************************************************)
\* generate_sample_sales_for_products answered by a failure instead
SyntheticFails(products, seed, next_pc) ==
    /\ pc' = "fallback"
    /\ UNCHANGED <<sales_agg, method>>

Synthetic(products, seed, next_pc) ==
    IF products.rows = <<>>
    THEN \* pd.DataFrame([]).groupby(['article_id', 't_dat']) raises KeyError
         /\ pc' = "fallback"
         /\ UNCHANGED <<sales_agg, method>>
    ELSE /\ sales_agg' = generate_sample_sales_for_products(products, seed)
         /\ method' = "synthetic"
         /\ pc' = next_pc

\* both listings answer, and an articles parquet file is among the keys
ListFound ==
    /\ pc = "start"
    /\ transaction_files' = DOMAIN s3_transactions
    /\ pc' = IF DOMAIN s3_transactions = {} THEN "articles_only"
             ELSE "download_articles"
    /\ UNCHANGED <<inputs, run, in_main, transactions_dir, downloaded_count,
                   products_df, batches, batch_i, product_revenue,
                   selected_products, all_transactions, sales_agg, method, disk,
                   history, svc>>

\* list_s3_files returns [] for the transactions prefix (no client, an error)
ListTransactionsMissing ==
    /\ pc = "start"
    /\ transaction_files' = {}
    /\ pc' = "articles_only"
    /\ UNCHANGED <<inputs, run, in_main, transactions_dir, downloaded_count,
                   products_df, batches, batch_i, product_revenue,
                   selected_products, all_transactions, sales_agg, method, disk,
                   history, svc>>

\* list_s3_files returns no articles parquet key: return False
ListArticlesMissing ==
    /\ pc = "start"
    /\ pc' = "fallback"
    /\ UNCHANGED <<inputs, run, in_main, transactions_dir, locals, disk, history,
                   svc>>

DownloadArticles ==
    /\ pc = "download_articles"
    /\ products_df' = create_product_index(s3_articles)
    /\ catalog_loaded' = TRUE
    /\ pc' = "download_transactions"
    /\ UNCHANGED <<inputs, run, in_main, transaction_files, transactions_dir,
                   downloaded_count, batches, batch_i, product_revenue,
                   selected_products, all_transactions, sales_agg, method, disk,
                   disk_before, write_failed, svc>>

\* lines 203-214: the catalog with generated sales
DownloadArticlesOnly ==
    /\ pc = "articles_only"
    /\ products_df' = create_product_index(s3_articles)
    /\ \E seed \in Seeds :
           Synthetic(create_product_index(s3_articles), seed, "save_products")
    /\ catalog_loaded' = TRUE
    /\ UNCHANGED <<inputs, run, in_main, transaction_files, transactions_dir,
                   downloaded_count, batches, batch_i, product_revenue,
                   selected_products, all_transactions, disk, disk_before,
                   write_failed, svc>>

\* download_file returns None for the articles file: return False
DownloadArticlesFail ==
    /\ pc \in {"download_articles", "articles_only"}
    /\ pc' = "fallback"
    /\ UNCHANGED <<inputs, run, in_main, transactions_dir, locals, disk, history,
                   svc>>

\* a download step that gives up the real path as soon as one file fails
DownloadedHardStop(ok) ==
    /\ pc = "download_transactions"
    /\ transactions_dir' = transactions_dir \cup ok
    /\ downloaded_count' = Cardinality(ok)
    /\ IF ok /= transaction_files
       THEN \E seed \in Seeds : Synthetic(products_df, seed, "save_products")
       ELSE /\ pc' = "open_dataset"
            /\ UNCHANGED <<sales_agg, method>>
    /\ UNCHANGED <<inputs, run, in_main, transaction_files, products_df, batches,
                   batch_i, product_revenue, selected_products, all_transactions,
                   disk, history, svc>>

\* lines 236-248: ok is the set of files whose download succeeded
Downloaded(ok) ==
    /\ pc = "download_transactions"
    /\ transactions_dir' = transactions_dir \cup ok
    /\ downloaded_count' = Cardinality(ok)
    /\ IF ok = {}
       THEN \E seed \in Seeds : Synthetic(products_df, seed, "save_products")
       ELSE /\ pc' = "open_dataset"
            /\ UNCHANGED <<sales_agg, method>>
    /\ UNCHANGED <<inputs, run, in_main, transaction_files, products_df, batches,
                   batch_i, product_revenue, selected_products, all_transactions,
                   disk, history, svc>>

DownloadAllTransactions == Downloaded(transaction_files)

DownloadSomeTransactions ==
    \E ok \in (SUBSET transaction_files) \ {transaction_files} : Downloaded(ok)

\* ds.dataset(transactions_dir): every file of the directory, in name order
DatasetFiles ==
    LET order == SortedSeq(transactions_dir)
    IN  [k \in DOMAIN order |-> s3_transactions[order[k]]]

\* lines 256-265; to_batches(columns=['article_id', 'price']) raises when the
\* files have no such column
OpenDataset ==
    /\ pc = "open_dataset"
    /\ IF {"article_id", "price"} \subseteq s3_columns
       THEN /\ batches' = to_batches(DatasetFiles)
            /\ batch_i' = 1
            /\ product_revenue' = EmptyRevenue
            /\ pc' = "pass1"
       ELSE /\ pc' = "fallback"
            /\ UNCHANGED <<batches, batch_i, product_revenue>>
    /\ UNCHANGED <<inputs, run, in_main, transaction_files, transactions_dir,
                   downloaded_count, products_df, selected_products,
                   all_transactions, sales_agg, method, disk, history, svc>>

\* lines 343-349: import pyarrow.dataset raises ImportError; the first listed
\* file alone is read and aggregated, products_df is left as it is.
\* aggregate_sales_by_product returns pd.DataFrame() when t_dat or article_id
\* is not a column (data_loader.py line 178), and its agg raises KeyError
\* when price is not
PandasFallback ==
    /\ pc = "open_dataset"
    /\ IF 1 \notin transactions_dir
       THEN \* pd.read_parquet(first_file) raises FileNotFoundError
            /\ pc' = "fallback"
            /\ UNCHANGED <<sales_agg, method>>
       ELSE IF ~({"t_dat", "article_id"} \subseteq s3_columns)
       THEN /\ sales_agg' = EmptyFrame
            /\ method' = "pandas"
            /\ pc' = "save_products"
       ELSE IF "price" \notin s3_columns
       THEN /\ pc' = "fallback"
            /\ UNCHANGED <<sales_agg, method>>
       ELSE /\ sales_agg' = aggregate_sales_by_product(s3_transactions[1])
            /\ method' = "pandas"
            /\ pc' = "save_products"
    /\ UNCHANGED <<inputs, run, in_main, transaction_files, transactions_dir,
                   downloaded_count, products_df, batches, batch_i,
                   product_revenue, selected_products, all_transactions, disk,
                   history, svc>>

\* lines 262-269
Pass1Batch ==
    /\ pc = "pass1"
    /\ batch_i <= Len(batches)
    /\ product_revenue' = AccumulateRevenue(product_revenue, batches[batch_i])
    /\ batch_i' = batch_i + 1
    /\ UNCHANGED <<inputs, pc, run, in_main, transaction_files, transactions_dir,
                   downloaded_count, products_df, batches, selected_products,
                   all_transactions, sales_agg, method, disk, history, svc>>

\* a selection made without waiting for the end of the first pass
SelectEarly ==
    /\ pc = "pass1"
    /\ IF DOMAIN product_revenue = {}
       THEN /\ pc' = "fallback"
            /\ UNCHANGED <<selected_products, batch_i, all_transactions>>
       ELSE /\ selected_products' = SelectProducts(products_df.rows, product_revenue)
            /\ all_transactions' = <<>>
            /\ batch_i' = 1
            /\ pc' = IF "t_dat" \in s3_columns THEN "pass2" ELSE "fallback"
    /\ UNCHANGED <<inputs, run, in_main, transaction_files, transactions_dir,
                   downloaded_count, products_df, batches, product_revenue,
                   sales_agg, method, disk, history, svc>>

\* lines 273-314
SelectDiverseProducts ==
    /\ pc = "pass1"
    /\ batch_i > Len(batches)
    /\ IF DOMAIN product_revenue = {}
       THEN \* revenue_df has no article_id column: merge raises KeyError
            /\ pc' = "fallback"
            /\ UNCHANGED <<selected_products, batch_i, all_transactions>>
       ELSE /\ selected_products' = SelectProducts(products_df.rows, product_revenue)
            /\ all_transactions' = <<>>
            /\ batch_i' = 1
            \* line 316: to_batches(columns=['article_id', 't_dat', 'price'])
            /\ pc' = IF "t_dat" \in s3_columns THEN "pass2" ELSE "fallback"
    /\ UNCHANGED <<inputs, run, in_main, transaction_files, transactions_dir,
                   downloaded_count, products_df, batches, product_revenue,
                   sales_agg, method, disk, history, svc>>

\* lines 316-327
Pass2Batch ==
    /\ pc = "pass2"
    /\ batch_i <= Len(batches)
    /\ all_transactions' =
           AppendBatch(all_transactions,
                       FilterSelected(batches[batch_i], Range(selected_products)))
    /\ batch_i' = batch_i + 1
    /\ UNCHANGED <<inputs, pc, run, in_main, transaction_files, transactions_dir,
                   downloaded_count, products_df, batches, product_revenue,
                   selected_products, sales_agg, method, disk, history, svc>>

\* lines 329-341
AggregateSales ==
    /\ pc = "pass2"
    /\ batch_i > Len(batches)
    /\ IF all_transactions = <<>>
       THEN \* pd.concat([]) raises ValueError
            /\ pc' = "fallback"
            /\ UNCHANGED <<sales_agg, products_df, method>>
       ELSE /\ sales_agg' = ConcatAndAggregate(all_transactions)
            /\ products_df' =
                   ProductsWithSales(products_df, ConcatAndAggregate(all_transactions))
            /\ method' = "real"
            /\ pc' = "save_products"
    /\ UNCHANGED <<inputs, run, in_main, transaction_files, transactions_dir,
                   downloaded_count, batches, batch_i, product_revenue,
                   selected_products, all_transactions, disk, history, svc>>

(***************************************************************************)
(* DataLoader.save_processed_data: df.to_parquet(output_path) opens the    *)
(* target path itself for writing and writes into it; there is no          *)
(* temporary file and no rename.  Between the open and the close the file  *)
(* exists and is incomplete.                                               *)
(***************************************************************************)
SaveTarget == IF pc \in {"save_products", "write_products"} THEN "products" ELSE "sales"

\* a save that appends to the rows the file held when the run started
MergedFrame ==
    LET df == IF SaveTarget = "products" THEN products_df ELSE sales_agg
    IN  [df EXCEPT !.rows = disk_before[SaveTarget].table.rows \o df.rows]

\* a save that leaves alone a file that existed when the run started
KeptFrame ==
    IF disk_before[SaveTarget].state = "complete"
    THEN disk_before[SaveTarget].table
    ELSE IF SaveTarget = "products" THEN products_df ELSE sales_agg

SavedFrame == IF SaveTarget = "products" THEN products_df ELSE sales_agg

BeginSave ==
    /\ pc \in {"save_products", "save_sales"}
    /\ disk' = [disk EXCEPT ![SaveTarget] = PartialFile]
    /\ pc' = IF pc = "save_products" THEN "write_products" ELSE "write_sales"
    /\ UNCHANGED <<inputs, run, in_main, transactions_dir, locals, history, svc>>

FinishSave ==
    /\ pc \in {"write_products", "write_sales"}
    /\ disk' = [disk EXCEPT ![SaveTarget] =
                   [state |-> "complete", table |-> SavedFrame, gen |-> run,
                    method |-> method]]
    /\ pc' = IF pc = "write_products" THEN "save_sales" ELSE "verify"
    /\ UNCHANGED <<inputs, run, in_main, transactions_dir, locals, history, svc>>

\* to_parquet raises (disk full, I/O error), before the file is opened or
\* while it is written.  Inside try_download_from_s3 the exception is caught
\* (return False); in main it is not.
FailSave ==
    /\ pc \in {"save_products", "write_products", "save_sales", "write_sales"}
    /\ write_failed' = TRUE
    /\ pc' = IF in_main THEN "crashed" ELSE "fallback"
    /\ UNCHANGED <<inputs, run, in_main, transactions_dir, locals, disk,
                   disk_before, catalog_loaded, svc>>

(***************************************************************************)
(* main.                                                                   *)
(***************************************************************************)
\* a main that gives up where it should write the sample data
FallbackGivesUp ==
    /\ pc = "fallback"
    /\ in_main' = TRUE
    /\ pc' = "exit1"
    /\ UNCHANGED <<inputs, run, transaction_files, transactions_dir,
                   downloaded_count, products_df, batches, batch_i,
                   product_revenue, selected_products, all_transactions,
                   sales_agg, method, disk, history, svc>>

\* lines 372-379: success is False; create_sample_data and save it
Fallback ==
    /\ pc = "fallback"
    /\ in_main' = TRUE
    /\ products_df' = create_sample_products
    /\ \E seed \in Seeds : sales_agg' = create_sample_sales(seed)
    /\ method' = "sample"
    /\ pc' = "save_products"
    /\ UNCHANGED <<inputs, run, transaction_files, transactions_dir,
                   downloaded_count, batches, batch_i, product_revenue,
                   selected_products, all_transactions, disk, history, svc>>

\* lines 384-431
Verify ==
    /\ pc = "verify"
    /\ pc' = IF \A n \in Tables : disk[n].state /= "absent"
             THEN "complete" ELSE "exit1"
    /\ UNCHANGED <<inputs, run, in_main, transactions_dir, locals, disk, history,
                   svc>>

RunEnded == pc \in {"complete", "exit1", "crashed"}

\* the script is run again
StartRun ==
    /\ RunEnded
    /\ run < MaxRuns
    /\ run' = run + 1
    /\ pc' = "start"
    /\ in_main' = FALSE
    /\ transaction_files' = {}
    /\ downloaded_count' = 0
    /\ products_df' = EmptyFrame
    /\ batches' = <<>>
    /\ batch_i' = 1
    /\ product_revenue' = EmptyRevenue
    /\ selected_products' = <<>>
    /\ all_transactions' = <<>>
    /\ sales_agg' = EmptyFrame
    /\ method' = "none"
    /\ disk_before' = disk
    /\ write_failed' = FALSE
    /\ catalog_loaded' = FALSE
    /\ UNCHANGED <<inputs, transactions_dir, disk, svc>>

(***************************************************************************)
(* Query Service: AnalyticsService.__init__ / load_data, run by the first  *)
(* get_analytics_service call of the serving process.                      *)
(***************************************************************************)
\* a load that reads the products file when only the sales file is missing
LoadsWhatExists ==
    [NoService EXCEPT !.pc = "loaded", !.files_missing = TRUE,
                      !.products_df = disk["products"].table]

\* lines 43-46: a path does not exist; a warning is logged and both frames
\* are empty
FilesNotFound == [NoService EXCEPT !.pc = "loaded", !.files_missing = TRUE]

\* load_data called again on a service that has already loaded
ServiceReload ==
    /\ svc.pc \in {"none", "loaded"}
    /\ svc' = IF \A n \in Tables : disk[n].state /= "absent"
              THEN [svc EXCEPT !.pc = "read_products"]
              ELSE FilesNotFound
    /\ UNCHANGED <<inputs, pc, run, in_main, transactions_dir, locals, disk,
                   history>>

\* line 34: both paths exist (a file being written exists)
ServiceLoad ==
    /\ svc.pc = "none"
    /\ svc' = IF \A n \in Tables : disk[n].state /= "absent"
              THEN [svc EXCEPT !.pc = "read_products"]
              ELSE FilesNotFound
    /\ UNCHANGED <<inputs, pc, run, in_main, transactions_dir, locals, disk,
                   history>>

\* an except branch that marks the failure and keeps what was read so far
LoadFailedKeeps == [svc EXCEPT !.pc = "loaded", !.read_partial = TRUE]

\* an incomplete parquet file has no footer: read_parquet raises, and the
\* except branch leaves both frames empty
LoadFailed == [NoService EXCEPT !.pc = "loaded", !.read_partial = TRUE]

\* line 35
ServiceReadProducts ==
    /\ svc.pc = "read_products"
    /\ svc' = IF disk["products"].state = "partial"
              THEN LoadFailed
              ELSE [svc EXCEPT !.pc = "read_sales",
                               !.products_df = disk["products"].table,
                               !.products_gen = disk["products"].gen]
    /\ UNCHANGED <<inputs, pc, run, in_main, transactions_dir, locals, disk,
                   history>>

\* line 36
ServiceReadSales ==
    /\ svc.pc = "read_sales"
    /\ svc' = IF disk["sales"].state = "partial"
              THEN LoadFailed
              ELSE [svc EXCEPT !.pc = "loaded",
                               !.sales_df = disk["sales"].table,
                               !.sales_gen = disk["sales"].gen]
    /\ UNCHANGED <<inputs, pc, run, in_main, transactions_dir, locals, disk,
                   history>>

(***************************************************************************)
(* Specifications.                                                         *)
(***************************************************************************)
\* The whole system: pipeline runs with every outcome of the object store,
\* of the pyarrow import and of the disk, and the Query Service loading
\* concurrently.
PipelineCatalogs ==
    {<<Product(1, 1)>>, <<Product(1, 1), Product(2, 2)>>}

PipelineLogs ==
    {<< <<Txn(1, 1, 1)>> >>,
     << <<Txn(1, 1, 1)>>, <<Txn(2, 1, 1), Txn(1, 2, 0)>> >>}

Init == InitWith(PipelineCatalogs, PipelineLogs)

Next ==
    \/ ListFound
    \/ ListTransactionsMissing
    \/ ListArticlesMissing
    \/ DownloadArticles
    \/ DownloadArticlesOnly
    \/ DownloadArticlesFail
    \/ DownloadAllTransactions
    \/ DownloadSomeTransactions
    \/ OpenDataset
    \/ PandasFallback
    \/ Pass1Batch
    \/ SelectDiverseProducts
    \/ Pass2Batch
    \/ AggregateSales
    \/ BeginSave
    \/ FinishSave
    \/ FailSave
    \/ Fallback
    \/ Verify
    \/ StartRun
    \/ ServiceLoad
    \/ ServiceReadProducts
    \/ ServiceReadSales

Spec == Init /\ [][Next]_vars

\* The real two-pass path with every collaborator answering.
NextReal ==
    \/ ListFound
    \/ DownloadArticles
    \/ DownloadAllTransactions
    \/ OpenDataset
    \/ Pass1Batch
    \/ SelectDiverseProducts
    \/ Pass2Batch
    \/ AggregateSales

\* The Revenue Ranker on every bounded catalog and every bounded transaction
\* file (the ranking pass reads the columns article_id and price only, so one
\* date suffices); to_batches cuts the file into batches.
\* catalogs in which some product_type_name is null, article_ids ascending
NullTypeCatalogs ==
    {c \in Catalogs(ArticleIds, {1, NoType}) :
        \A j, k \in DOMAIN c : j < k => c[j].article_id < c[k].article_id}

InitRank ==
    InitWith(Catalogs(ArticleIds, ProductTypes) \cup NullTypeCatalogs,
             SingleFileLogs(ArticleIds, {1}, Prices))

SpecRank == InitRank /\ [][NextReal]_vars

\* The Sales Aggregator on every bounded transaction log and every way to
\* cut it into files.
AggCatalogs == {<<Product(1, 1)>>, <<Product(2, 1), Product(1, 2)>>}

InitAgg == InitWith(AggCatalogs, Logs({1, 2}, Dates, Prices))

SpecAgg == InitAgg /\ [][NextReal]_vars

(***************************************************************************)
(* Properties.                                                             *)
(***************************************************************************)
\* the transaction rows the dataset of the current run holds
DatasetRows == Flatten(DatasetFiles)

\* the rows among them whose article_id was selected
SelectedRows ==
    SelectSeq(DatasetRows, LAMBDA r : r.article_id \in Range(selected_products))

RowsOfKey(rows, i, d) ==
    SelectSeq(rows, LAMBDA r : r.article_id = i /\ r.t_dat = d)

RECURSIVE SumUnits(_)
SumUnits(rows) ==
    IF rows = <<>> THEN 0 ELSE Head(rows).units_sold + SumUnits(Tail(rows))

Persisted(n) == disk[n].state = "complete"

\* C1: when a run has persisted its two tables, every article_id of the
\* persisted products table appears in the persisted sales table.
C1_ProductsHaveSales ==
    pc = "verify" =>
        Ids(disk["products"].table) \subseteq Ids(disk["sales"].table)

\* C2: a read by the Query Service never finds a partially written file: at
\* every point of a save the file is absent or complete.
C2_NoPartialRead == svc.read_partial = FALSE

\* C3: a Query Service load that read both tables holds products and sales
\* written by the same pipeline run.
C3_SameGeneration ==
    (svc.pc = "loaded" /\ svc.products_gen /= 0 /\ svc.sales_gen /= 0)
        => svc.products_gen = svc.sales_gen

\* C4: when a persistence write of a run failed and both tables had been
\* persisted before the run, the run ends aborted with both tables as they
\* were when it started.
C4_FailedWriteKeepsTables ==
    (RunEnded /\ write_failed /\ \A n \in Tables : disk_before[n].state = "complete")
        => (pc = "crashed" /\ disk = disk_before)

\* the columns of a persisted table beyond the five data columns
ProvenanceColumns(table) == Range(table.cols) \ Range(RealCols)

\* C5: a persisted sales table produced by a synthetic path carries a
\* provenance marker, which the table of the real path does not carry.
C5_SyntheticIsMarked ==
    (Persisted("sales") /\ disk["sales"].method \in {"synthetic", "sample"})
        => ProvenanceColumns(disk["sales"].table) /= {}

\* C6: the aggregate of the real path has exactly one row per distinct
\* (article_id, date) key of the selected-id transactions of the whole log,
\* and the row's sum and count are those of all the key's transactions,
\* whatever the batches.
C6_OneRowPerKey ==
    method = "real" =>
        LET keys == {<<SelectedRows[k].article_id, SelectedRows[k].t_dat>> :
                        k \in DOMAIN SelectedRows}
            rows == sales_agg.rows
        IN  /\ Len(rows) = Cardinality(keys)
            /\ {<<rows[k].article_id, rows[k].date>> : k \in DOMAIN rows} = keys
            /\ \A k \in DOMAIN rows :
                   LET of_key == RowsOfKey(SelectedRows, rows[k].article_id,
                                           rows[k].date)
                   IN  /\ rows[k].total_revenue = SumPrice(of_key)
                       /\ rows[k].units_sold = Len(of_key)

\* a selected key has transactions in two different batches
C6_Witness ==
    /\ method = "real"
    /\ \E a, b \in DOMAIN batches :
           /\ a < b
           /\ \E r \in Range(batches[a]) :
                  /\ r.article_id \in Range(selected_products)
                  /\ RowsOfKey(batches[b], r.article_id, r.t_dat) /= <<>>

\* C7: the units_sold of the aggregate rows sum to the number of transaction
\* rows whose article_id is selected.
C7_UnitsEqualRowCount ==
    method = "real" => SumUnits(sales_agg.rows) = Len(SelectedRows)

\* several batches, and some rows of unselected products are filtered out
C7_Witness ==
    /\ method = "real"
    /\ Len(batches) >= 2
    /\ Len(SelectedRows) < Len(DatasetRows)
    /\ Len(SelectedRows) >= 2

\* C8: the selection never has more than target_count ids.
C8_AtMostTargetCount == Len(selected_products) <= target_count

\* the candidates span more categories than target_count, so that the
\* per-category selections exceed it
C8_Witness ==
    /\ pc = "pass2"
    /\ Cardinality({p.product_type_name :
                       p \in {q \in Range(products_df.rows) :
                                 /\ q.article_id \in DOMAIN product_revenue
                                 /\ q.product_type_name /= NoType}})
           > target_count
    /\ Len(selected_products) = target_count

\* C9 as stated: every selected id has strictly positive summed revenue.
C9_PositiveRevenue ==
    \A i \in Range(selected_products) : product_revenue[i] > 0

\* C9 as amended: every selected id has non-negative summed revenue, and it
\* is zero only when all of the product's transactions have price 0.
C9_NonNegativeRevenue ==
    \A i \in Range(selected_products) :
        /\ product_revenue[i] >= 0
        /\ product_revenue[i] = 0 =>
               \A r \in Range(DatasetRows) : r.article_id = i => r.price = 0

\* a product of summed revenue 0 is selected next to one of positive revenue
C9_Witness ==
    /\ pc = "pass2"
    /\ \E i, j \in Range(selected_products) :
           product_revenue[i] = 0 /\ product_revenue[j] > 0

\* C10: every selected id is in the catalog and has a transaction in the log.
C10_SelectedInCatalogWithSales ==
    \A i \in Range(selected_products) :
        /\ \E p \in Range(s3_articles) : p.article_id = i
        /\ \E r \in Range(DatasetRows) : r.article_id = i

\* a selection was made while the catalog holds a product without
\* transactions and the log holds a product that is not in the catalog
C10_Witness ==
    /\ pc = "pass2"
    /\ selected_products /= <<>>
    /\ \E p \in Range(s3_articles) :
           \A r \in Range(DatasetRows) : r.article_id /= p.article_id
    /\ \E r \in Range(DatasetRows) :
           \A p \in Range(s3_articles) : p.article_id /= r.article_id

(***************************************************************************)
(* Fallback and failure handling.                                          *)
(***************************************************************************)
\* the listing named no transaction file, or no listed file was downloaded
NoTransactionSource == transaction_files = {} \/ downloaded_count = 0

\* C11: a run that downloaded a catalog with products but found no
\* transaction source (no file listed, or none downloaded), and none of
\* whose writes failed, ends in the "setup complete" state without having
\* left try_download_from_s3 by a failure, with the whole catalog persisted
\* as the products table and generated sales persisted as the sales table.
C11_SyntheticOnNoSource ==
    (RunEnded /\ catalog_loaded /\ NoTransactionSource /\ ~write_failed
        /\ s3_articles /= <<>>)
    => /\ pc = "complete"
       /\ ~in_main
       /\ Persisted("products") /\ Persisted("sales")
       /\ disk["products"].gen = run /\ disk["sales"].gen = run
       /\ disk["products"].table = create_product_index(s3_articles)
       /\ disk["sales"].method = "synthetic"
       /\ disk["sales"].table.rows /= <<>>
       /\ Ids(disk["sales"].table) \subseteq Ids(disk["products"].table)

C11_Witness ==
    /\ pc = "complete"
    /\ catalog_loaded
    /\ transaction_files /= {}
    /\ downloaded_count = 0
    /\ ~write_failed
    /\ disk["sales"].method = "synthetic"
    /\ disk["sales"].gen = run
    /\ disk["products"].table = create_product_index(s3_articles)

\* try_download_from_s3 is past its download loop and has not failed
AfterDownloads ==
    /\ catalog_loaded
    /\ ~in_main
    /\ transaction_files /= {}
    /\ pc \in {"open_dataset", "pass1", "pass2", "save_products",
               "write_products", "save_sales", "write_sales", "verify",
               "complete"}

FaultCatalogs == {<<Product(1, 1)>>}

FaultLogs ==
    {<< <<Txn(2, 1, 1)>> >>,
     << <<Txn(1, 1, 1)>>, <<Txn(1, 2, 1)>> >>}

Schemas == {AllColumns} \cup {AllColumns \ {c} : c \in AllColumns}

InitFaults == InitInputs(FaultCatalogs, FaultLogs, Schemas)

SpecFaults == InitFaults /\ [][Next]_vars

\* the real path ran its ranking pass and selected no product
EmptyJoin ==
    /\ s3_columns = AllColumns
    /\ DOMAIN product_revenue /= {}
    /\ selected_products = <<>>
    /\ pc \notin {"pass1", "start", "download_articles", "download_transactions",
                  "open_dataset", "articles_only"}

\* C13: a run of the real path whose join of the revenue with the catalog
\* has no row, and none of whose writes failed, ends having persisted an
\* empty sales table produced by the real path, without having left
\* try_download_from_s3 by a failure.
C13_EmptyResultPersisted ==
    (EmptyJoin /\ ~write_failed)
    => /\ ~in_main
       /\ pc /= "fallback"
       /\ RunEnded =>
              /\ Persisted("sales")
              /\ disk["sales"].gen = run
              /\ disk["sales"].method = "real"
              /\ disk["sales"].table.rows = <<>>

\* C14: a run that downloaded transaction files lacking one of the columns
\* article_id, t_dat, price does not end in the "setup complete" state
\* (stated for the runs in which pyarrow.dataset is importable; a run on the
\* ImportError branch ends in that state as well).
C14_SchemaMismatchAborts ==
    ~(/\ s3_columns /= AllColumns
      /\ catalog_loaded
      /\ downloaded_count > 0
      /\ method /= "pandas"
      /\ pc = "complete")

(***************************************************************************)
(* Query Service.                                                          *)
(***************************************************************************)
\* C15 as stated: when a table file does not exist, loading does not return
\* normally with a table.
C15_LoadFailsWithNotFound ==
    ~(svc.files_missing /\ svc.pc = "loaded")

\* C15, amended: when a table file does not exist, loading returns normally
\* and the service holds an empty products table and an empty sales table.
C15_EmptyTablesWhenMissing ==
    svc.files_missing =>
        /\ svc.pc = "loaded"
        /\ svc.products_df = EmptyFrame
        /\ svc.sales_df = EmptyFrame

C15_Witness ==
    /\ svc.files_missing
    /\ svc.pc = "loaded"
    /\ svc.products_df = EmptyFrame
    /\ svc.sales_df = EmptyFrame
    /\ svc.products_gen = 0
    /\ disk["sales"].state = "absent"

(***************************************************************************)
(* Query endpoints (routes/products.py) over the loaded tables.            *)
(***************************************************************************)
None == [article_id |-> 0, product_type_name |-> NoType]

MaxDate(rows) ==
    CHOOSE d \in {rows[k].date : k \in DOMAIN rows} :
        \A k \in DOMAIN rows : rows[k].date <= d

\* sort_values('date'): stable insertion of each row behind the rows whose
\* date is not greater
RECURSIVE sort_values_date(_)
sort_values_date(rows) ==
    IF rows = <<>> THEN <<>>
    ELSE LET rest == sort_values_date(SubSeq(rows, 1, Len(rows) - 1))
             last == rows[Len(rows)]
             IsBefore(r) == r.date <= last.date
             IsAfter(r) == r.date > last.date
         IN  SelectSeq(rest, IsBefore) \o <<last>> \o SelectSeq(rest, IsAfter)

\* AnalyticsService.get_product_by_id: the first row whose article_id,
\* written as a string, equals the requested one
get_product_by_id(s, article_id) ==
    LET IsIt(r) == r.article_id = article_id
        product == SelectSeq(s.products_df.rows, IsIt)
    IN  IF s.products_df.rows = <<>> \/ product = <<>> THEN None
        ELSE product[1]

\* the data points of an answer, one per row of the frame
data_points(product_sales) ==
    [k \in DOMAIN product_sales |->
        [date |-> product_sales[k].date,
         revenue |-> product_sales[k].total_revenue,
         units_sold |-> product_sales[k].units_sold]]

RECURSIVE SumRevenue(_)
SumRevenue(rows) ==
    IF rows = <<>> THEN 0
    ELSE Head(rows).total_revenue + SumRevenue(Tail(rows))

\* the answer for an empty sales table or a product without sales rows
NoSalesData == [data |-> <<>>, total_revenue |-> 0, total_units |-> 0]

\* get_sales_history with the window ending at the latest date of the whole
\* sales table instead of the product's own latest date
get_sales_history_global(s, article_id, days) ==
    LET IsIt(r) == r.article_id = article_id
        product_sales == SelectSeq(s.sales_df.rows, IsIt)
        InWindow(r) == r.date >= MaxDate(s.sales_df.rows) - days
    IN  IF s.sales_df.rows = <<>> \/ product_sales = <<>> THEN NoSalesData
        ELSE LET sorted == sort_values_date(SelectSeq(product_sales, InWindow))
             IN  [data |-> data_points(sorted),
                  total_revenue |-> SumRevenue(sorted),
                  total_units |-> SumUnits(sorted)]

\* AnalyticsService.get_sales_history: the data points and the totals of the
\* answer
get_sales_history(s, article_id, days) ==
    LET IsIt(r) == r.article_id = article_id
        product_sales == SelectSeq(s.sales_df.rows, IsIt)
        InWindow(r) == r.date >= MaxDate(product_sales) - days
    IN  IF s.sales_df.rows = <<>> \/ product_sales = <<>> THEN NoSalesData
        ELSE LET sorted == sort_values_date(SelectSeq(product_sales, InWindow))
             IN  [data |-> data_points(sorted),
                  total_revenue |-> SumRevenue(sorted),
                  total_units |-> SumUnits(sorted)]

\* GET /products/{article_id}/sales
get_product_sales(s, article_id, days) ==
    IF get_sales_history(s, article_id, days).data = <<>> THEN 404 ELSE 200

\* GET /products/{article_id}/forecast: the history of 90 days (every date
\* of the model), then ForecastService.generate_forecast on a non-empty
\* history
history_days == 90

get_product_forecast(s, article_id) ==
    IF get_sales_history(s, article_id, history_days).data = <<>> THEN 404
    ELSE 200

\* GET /products/{article_id}/segments.  SegmentationService calls
\* product_info.get('product_type_name', '').lower(): the key is present, so
\* a null product_type_name is returned as it is and .lower() raises
\* AttributeError, which no handler catches (status 500).
get_customer_segments(s, article_id) ==
    LET product == get_product_by_id(s, article_id)
    IN  IF product = None THEN 404
        ELSE IF product.product_type_name = NoType THEN 500
        ELSE 200

QueryDays == {-1, 0, 1}

QuerySales ==
    /\ svc.pc = "loaded"
    /\ \E article_id \in ArticleIds, days \in QueryDays :
           svc' = [svc EXCEPT !.response =
                       <<"sales", article_id,
                         get_product_sales(svc, article_id, days), days,
                         get_sales_history(svc, article_id, days)>>]
    /\ UNCHANGED <<inputs, pc, run, in_main, transactions_dir, locals, disk,
                   history>>

QueryForecast ==
    /\ svc.pc = "loaded"
    /\ \E article_id \in ArticleIds :
           svc' = [svc EXCEPT !.response =
                       <<"forecast", article_id,
                         get_product_forecast(svc, article_id)>>]
    /\ UNCHANGED <<inputs, pc, run, in_main, transactions_dir, locals, disk,
                   history>>

QuerySegments ==
    /\ svc.pc = "loaded"
    /\ \E article_id \in ArticleIds :
           svc' = [svc EXCEPT !.response =
                       <<"segments", article_id,
                         get_customer_segments(svc, article_id)>>]
    /\ UNCHANGED <<inputs, pc, run, in_main, transactions_dir, locals, disk,
                   history>>

\* One pipeline run on the real path with no failure, the Query Service
\* loading at any moment of it, and requests to the loaded service.
QueryCatalogs ==
    {<<Product(1, 1), Product(2, 2)>>, <<Product(1, 1), Product(2, NoType)>>}

QueryLogs ==
    {<< <<Txn(1, 1, 1), Txn(1, 2, 1)>> >>,
     << <<Txn(1, 2, 1), Txn(2, 1, 1)>>, <<Txn(1, 1, 1), Txn(1, 1, 0)>> >>,
     << <<Txn(2, 1, 1)>>, <<Txn(1, 2, 1), Txn(2, 2, 0)>> >>}

InitQuery == InitWith(QueryCatalogs, QueryLogs)

NextQuery ==
    \/ NextReal
    \/ BeginSave
    \/ FinishSave
    \/ Verify
    \/ ServiceLoad
    \/ ServiceReadProducts
    \/ ServiceReadSales
    \/ QuerySales
    \/ QueryForecast
    \/ QuerySegments

SpecQuery == InitQuery /\ [][NextQuery]_vars

\* C16: every request to the sales, forecast and segments endpoints of the
\* loaded service is answered with a result (200) or with "not found"
\* (404), and with "not found" when the table it reads is empty or has no
\* row for the article_id.
C16_ResultOrNotFound ==
    svc.response /= <<>> =>
        LET endpoint == svc.response[1]
            article_id == svc.response[2]
            table == IF endpoint = "segments" THEN svc.products_df
                     ELSE svc.sales_df
        IN  /\ svc.response[3] \in {200, 404}
            /\ article_id \notin Ids(table) => svc.response[3] = 404

(***************************************************************************)
(* Repeated runs.                                                          *)
(***************************************************************************)
\* The real path run again and again on the same bucket, every collaborator
\* answering: each run finds the tables and the downloaded files of the run
\* before it.
TwiceCatalogs ==
    AggCatalogs \cup {<<Product(1, 1), Product(2, NoType)>>}

InitTwice == InitWith(TwiceCatalogs, Logs({1, 2}, Dates, {1}))

NextTwice ==
    \/ NextReal
    \/ BeginSave
    \/ FinishSave
    \/ Verify
    \/ StartRun

SpecTwice == InitTwice /\ [][NextTwice]_vars

C18_SalesReplaced ==
    pc = "complete"
    => /\ Persisted("sales")
       /\ disk["sales"].gen = run
       /\ disk["sales"].table = sales_agg
       /\ disk["products"].table = products_df

C18_Witness ==
    /\ pc = "complete"
    /\ run > 1
    /\ disk_before["sales"].state = "complete"
    /\ disk["sales"].table = sales_agg
    /\ \E k \in DOMAIN disk_before["sales"].table.rows :
           disk_before["sales"].table.rows[k] \notin Range(sales_agg.rows)

(***************************************************************************)
(* Revenue Ranker: top-up and ties.                                        *)
(***************************************************************************)
\* the candidates: the catalog products with a revenue entry, in catalog order
Candidates == MergeInner(create_product_index(s3_articles).rows, product_revenue)

CandidateIds == Range(ArticleIdList(Candidates))

\* SelectDiverseProducts has just made the selection
JustSelected == pc = "pass2" /\ batch_i = 1

\* the ids taken by the per-category step
PerCategory == SelectPerCategory(GroupKeys(Candidates), Candidates)

\* C19: when the per-category selections are fewer than target_count, the
\* selection keeps them and adds candidates not yet selected, none of which
\* has less revenue than a candidate left out; it has exactly target_count
\* ids when there are at least target_count candidates and holds every
\* candidate otherwise.
C19_TopUpFills ==
    (JustSelected /\ Len(PerCategory) < target_count)
    => /\ Cardinality(Range(selected_products)) = Len(selected_products)
       /\ Range(PerCategory) \subseteq Range(selected_products)
       /\ Range(selected_products) \subseteq CandidateIds
       /\ IF Cardinality(CandidateIds) >= target_count
          THEN Len(selected_products) = target_count
          ELSE Range(selected_products) = CandidateIds
       /\ \A i \in Range(selected_products) \ Range(PerCategory) :
              \A j \in CandidateIds \ Range(selected_products) :
                  product_revenue[j] <= product_revenue[i]

\* the top-up added a candidate and left another one out
C19_Witness ==
    /\ pc = "pass2"
    /\ Len(PerCategory) < target_count
    /\ PerCategory /= <<>>
    /\ Len(selected_products) = target_count
    /\ Cardinality(CandidateIds) > target_count

\* the candidates of one category, and those of them the selection holds
\* when nothing of the per-category step was cut off
CategoryIds(t) ==
    {Candidates[k].article_id :
        k \in {j \in DOMAIN Candidates : Candidates[j].product_type_name = t}}

PositionInCatalog(i) ==
    CHOOSE k \in DOMAIN s3_articles : s3_articles[k].article_id = i

\* the per-category step took Before-or-better candidates: the quota (or the
\* whole category), each taken one with more revenue than each one left out
\* or, at equal revenue, Before it
TakesTop(Before(_, _)) ==
    \A t \in Range(GroupKeys(Candidates)) :
        LET taken == CategoryIds(t) \cap Range(PerCategory)
        IN  /\ Cardinality(taken)
                   = Min(products_per_category, Cardinality(CategoryIds(t)))
            /\ \A i \in taken : \A j \in CategoryIds(t) \ taken :
                   \/ product_revenue[i] > product_revenue[j]
                   \/ product_revenue[i] = product_revenue[j] /\ Before(i, j)

\* the selection begins with the ids of the per-category step
StartsWithPerCategory ==
    LET n == Min(Len(PerCategory), target_count)
    IN  /\ Len(selected_products) >= n
        /\ SubSeq(selected_products, 1, n) = SubSeq(PerCategory, 1, n)

\* C20 as stated: within each category the products_per_category candidates
\* of highest revenue are taken, the smaller article_id first among equal
\* revenues.
C20_TiesBySmallerId ==
    JustSelected =>
        /\ StartsWithPerCategory
        /\ TakesTop(LAMBDA i, j : i < j)

\* C20, amended: ... the candidate that comes first in the catalog first
\* among equal revenues.
C20_TiesByCatalogOrder ==
    JustSelected =>
        /\ StartsWithPerCategory
        /\ TakesTop(LAMBDA i, j : PositionInCatalog(i) < PositionInCatalog(j))

\* two candidates of one category tie, and the one taken has the greater id
C20_Witness ==
    /\ pc = "pass2"
    /\ \E t \in Range(GroupKeys(Candidates)) :
           \E i \in CategoryIds(t) \cap Range(PerCategory) :
               \E j \in CategoryIds(t) \ Range(PerCategory) :
                   /\ product_revenue[i] = product_revenue[j]
                   /\ j < i
                   /\ i \in Range(selected_products)

(***************************************************************************)
(* Revenue Ranker: order of the selection.                                 *)
(***************************************************************************)
TypeOf(i) == s3_articles[PositionInCatalog(i)].product_type_name

\* the place at which a category first occurs among the candidates
FirstSeen(t) ==
    CHOOSE k \in DOMAIN Candidates :
        /\ Candidates[k].product_type_name = t
        /\ \A j \in 1..(k - 1) : Candidates[j].product_type_name /= t

\* the selection is the first target_count ids of the per-category
\* selections listed category by category, the categories in the order of
\* Place, each category by descending revenue
CutInOrder(Place(_)) ==
    /\ Len(selected_products) = target_count
    /\ Range(selected_products) \subseteq Range(PerCategory)
    /\ \A k, l \in DOMAIN selected_products :
           k < l =>
               LET i == selected_products[k]
                   j == selected_products[l]
               IN  \/ Place(TypeOf(i)) < Place(TypeOf(j))
                   \/ /\ TypeOf(i) = TypeOf(j)
                      /\ product_revenue[i] >= product_revenue[j]
    /\ \A i \in Range(selected_products) :
           \A j \in Range(PerCategory) \ Range(selected_products) :
               \/ Place(TypeOf(i)) < Place(TypeOf(j))
               \/ /\ TypeOf(i) = TypeOf(j)
                  /\ product_revenue[i] >= product_revenue[j]

TopUpPart ==
    SubSeq(selected_products, Len(PerCategory) + 1, Len(selected_products))

\* C22: when the categories times products_per_category do not exceed
\* target_count and every category has at least products_per_category
\* candidates, the selection begins with every category's
\* products_per_category best candidates, and the ids behind them are
\* unselected candidates in descending order of revenue, none of less
\* revenue than a candidate left out.
C22_QuotasThenTopUp ==
    LET keys == Range(GroupKeys(Candidates))
    IN  (/\ JustSelected
         /\ Cardinality(keys) * products_per_category <= target_count
         /\ \A t \in keys : Cardinality(CategoryIds(t)) >= products_per_category)
        => /\ Len(PerCategory) = Cardinality(keys) * products_per_category
           /\ Len(selected_products) >= Len(PerCategory)
           /\ SubSeq(selected_products, 1, Len(PerCategory)) = PerCategory
           /\ TakesTop(LAMBDA i, j : PositionInCatalog(i) < PositionInCatalog(j))
           /\ Range(TopUpPart) \subseteq CandidateIds \ Range(PerCategory)
           /\ \A k, l \in DOMAIN TopUpPart :
                  k < l => product_revenue[TopUpPart[k]]
                               >= product_revenue[TopUpPart[l]]
           /\ \A i \in Range(TopUpPart) :
                  \A j \in CandidateIds \ Range(selected_products) :
                      product_revenue[j] <= product_revenue[i]

\* one category fills its quota, a candidate of more revenue than the
\* category's best is topped up and a third candidate is left out
C22_Witness ==
    /\ JustSelected
    /\ Len(PerCategory) = products_per_category
    /\ Cardinality(Range(GroupKeys(Candidates))) = 1
    /\ TopUpPart /= <<>>
    /\ Cardinality(CandidateIds) > Len(selected_products)
    /\ \E i \in Range(PerCategory) :
           \E j \in Range(TopUpPart) : product_revenue[i] < product_revenue[j]

(***************************************************************************)
(* Sales Aggregator: the values of a row.                                  *)
(***************************************************************************)
\* C23: every row of the aggregate has total_revenue equal to the sum of
\* the prices of the transactions of its (article_id, date) key and
\* units_sold equal to their number, and avg_price (a fraction) times
\* units_sold is total_revenue.
C23_SumCountMean ==
    pc = "save_products" =>
        \A row \in Range(sales_agg.rows) :
            LET group == RowsOfKey(DatasetRows, row.article_id, row.date)
            IN  /\ group /= <<>>
                /\ row.total_revenue = SumPrice(group)
                /\ row.units_sold = Len(group)
                /\ row.avg_price.den > 0
                /\ row.avg_price.num * row.units_sold
                       = row.total_revenue * row.avg_price.den

\* three transactions of one key at prices 1, 1 and 0: 2 in total, 3 units
C23_Witness ==
    /\ pc = "save_products"
    /\ \E row \in Range(sales_agg.rows) :
           /\ row.units_sold = 3
           /\ row.total_revenue = 2
           /\ row.avg_price = [num |-> 2, den |-> 3]
           /\ Len(s3_transactions) > 1

\* C24: every row of a persisted sales table, whichever path produced it,
\* has units_sold >= 1 (and so has every row of the table a run is about to
\* persist).
C24_UnitsAtLeastOne ==
    /\ Persisted("sales") =>
           \A row \in Range(disk["sales"].table.rows) : row.units_sold >= 1
    /\ \A row \in Range(sales_agg.rows) : row.units_sold >= 1

\* a table of the real path has replaced a generated one
C24_Witness ==
    /\ Persisted("sales")
    /\ disk["sales"].method = "real"
    /\ disk["sales"].table.rows /= <<>>
    /\ disk_before["sales"].state = "complete"
    /\ disk_before["sales"].method \in {"synthetic", "sample"}
    /\ \E row \in Range(disk_before["sales"].table.rows) : row.units_sold > 1

(***************************************************************************)
(* Order of the steps of a run.                                            *)
(***************************************************************************)
BeforeAggregation ==
    pc \in {"start", "articles_only", "download_articles",
            "download_transactions", "open_dataset", "pass1", "pass2"}

\* during the aggregation pass the ranking pass is over: the revenue of
\* every product of the dataset is summed over all of its rows, and the
\* selection is the one made from it
RankingComplete ==
    pc = "pass2" =>
        /\ DOMAIN product_revenue = {r.article_id : r \in Range(DatasetRows)}
        /\ \A i \in DOMAIN product_revenue :
               product_revenue[i]
                   = SumPrice(SelectSeq(DatasetRows, LAMBDA r : r.article_id = i))
        /\ Range(selected_products) \subseteq DOMAIN product_revenue

\* up to the end of the aggregation the run has written no table
NothingPersistedYet == BeforeAggregation => disk = disk_before

\* a step of the aggregation pass leaves the selection and the revenue alone
SelectionFixed ==
    pc = "pass2" =>
        /\ selected_products' = selected_products
        /\ product_revenue' = product_revenue

\* C25: the aggregation pass runs only after the ranking pass has consumed
\* every batch, the selection does not change during it, and no table is
\* persisted before it has finished.
C25_StrictOrder ==
    /\ [](RankingComplete /\ NothingPersistedYet)
    /\ [][SelectionFixed]_vars

\* the aggregation pass half way through a dataset of several batches
C25_Witness ==
    /\ pc = "pass2"
    /\ Len(batches) > 1
    /\ batch_i > 1
    /\ batch_i <= Len(batches)
    /\ all_transactions /= <<>>
    /\ run > 1
    /\ disk["sales"].state = "complete"

(***************************************************************************)
(* Termination of main.                                                    *)
(***************************************************************************)
\* a step of main with no to_parquet call failing
MainStep ==
    \/ ListFound
    \/ ListTransactionsMissing
    \/ ListArticlesMissing
    \/ DownloadArticles
    \/ DownloadArticlesOnly
    \/ DownloadArticlesFail
    \/ DownloadAllTransactions
    \/ DownloadSomeTransactions
    \/ OpenDataset
    \/ PandasFallback
    \/ Pass1Batch
    \/ SelectDiverseProducts
    \/ Pass2Batch
    \/ AggregateSales
    \/ BeginSave
    \/ FinishSave
    \/ Fallback
    \/ Verify

NextLive == MainStep \/ StartRun

\* main is sequential code and each of its calls returns: a run that can
\* take a step takes one (weak fairness); whether the script is started
\* again is left open.
SpecLive == InitFaults /\ [][NextLive]_vars /\ WF_vars(MainStep)

BothTablesWritten ==
    /\ pc = "complete"
    /\ \A n \in Tables : Persisted(n) /\ disk[n].gen = run

\* C26: with no write failing, every run of main ends, whatever the object
\* store and the processing do, and it ends with the products and the sales
\* table on disk, written by that run.
C26_MainTerminates ==
    /\ (pc = "start") ~> BothTablesWritten
    /\ [](RunEnded => BothTablesWritten)

\* a processing error of the real path ended in the sample-data branch
C26_Witness ==
    /\ BothTablesWritten
    /\ in_main
    /\ catalog_loaded
    /\ downloaded_count > 0
    /\ disk["sales"].method = "sample"
    /\ disk["products"].method = "sample"

(***************************************************************************)
(* Search (services/search_service.py).  The text of a product is modelled *)
(* by its product_type_name, and a search string by the set of             *)
(* product_type_names whose text contains it.                              *)
(***************************************************************************)
MaxLimit == 2

SearchStrings == SUBSET {1, 2}

head(df, n) == SubSeq(df, 1, Min(n, Len(df)))

\* AnalyticsService.search_products
search_products(s, query, limit) ==
    IF s.products_df.rows = <<>> THEN <<>>
    ELSE head(SelectSeq(s.products_df.rows,
                        LAMBDA p : p.product_type_name \in query),
              limit)

\* lines 52-59 without the seen_ids test
RECURSIVE ExtendUnseen(_, _, _)
ExtendUnseen(all_results, products, limit) ==
    IF products = <<>> THEN all_results
    ELSE LET product == Head(products)
         IN  IF product.article_id /= 0
             THEN IF Len(all_results) + 1 >= limit
                  THEN Append(all_results, product)
                  ELSE ExtendUnseen(Append(all_results, product),
                                    Tail(products), limit)
             ELSE ExtendUnseen(all_results, Tail(products), limit)

\* lines 52-59: the products of one term, those already seen left out, up
\* to the limit
RECURSIVE ExtendResults(_, _, _)
ExtendResults(all_results, products, limit) ==
    IF products = <<>> THEN all_results
    ELSE LET product == Head(products)
             seen_ids == Range(ArticleIdList(all_results))
         IN  IF product.article_id /= 0 /\ product.article_id \notin seen_ids
             THEN IF Len(all_results) + 1 >= limit
                  THEN Append(all_results, product)
                  ELSE ExtendResults(Append(all_results, product),
                                     Tail(products), limit)
             ELSE ExtendResults(all_results, Tail(products), limit)

\* lines 50-62
RECURSIVE SearchTerms(_, _, _, _)
SearchTerms(all_results, search_terms, s, limit) ==
    IF search_terms = <<>> THEN all_results
    ELSE LET found == ExtendResults(all_results,
                          search_products(s, Head(search_terms), limit), limit)
         IN  IF Len(found) >= limit THEN found
             ELSE SearchTerms(found, Tail(search_terms), s, limit)

\* SearchService.search; search_terms is what extract_search_terms answers
search(s, query, search_terms, limit) ==
    LET by_terms == SearchTerms(<<>>, search_terms, s, limit)
        all_results == IF by_terms = <<>>
                       THEN search_products(s, query, limit)
                       ELSE by_terms
        formatted_results == ArticleIdList(head(all_results, limit))
    IN  [results |-> formatted_results, count |-> Len(formatted_results)]

\* POST /search.  A request leaves the service as it is, so the answer to one
\* request per behaviour is recorded.
QuerySearch ==
    /\ svc.pc = "loaded"
    /\ svc.response = <<>>
    /\ \E query \in SearchStrings, limit \in 0..MaxLimit,
          search_terms \in SeqsUpTo(SearchStrings, 2) :
           svc' = [svc EXCEPT !.response =
                       <<"search", query, search_terms, limit,
                         search(svc, query, search_terms, limit)>>]
    /\ UNCHANGED <<inputs, pc, run, in_main, transactions_dir, locals, disk,
                   history>>

\* A run that persists a whole catalog (with generated sales), the Query
\* Service loading at any moment of it, and searches on the loaded service.
SearchCatalogs ==
    {c \in Catalogs(ArticleIds, {1, 2}) :
        \A j, k \in DOMAIN c : j < k => c[j].article_id < c[k].article_id}

InitSearch == InitWith(SearchCatalogs, {<< <<Txn(1, 1, 1)>> >>})

NextSearch ==
    \/ ListTransactionsMissing
    \/ DownloadArticlesOnly
    \/ BeginSave
    \/ FinishSave
    \/ Verify
    \/ ServiceLoad
    \/ ServiceReadProducts
    \/ ServiceReadSales
    \/ QuerySearch

SpecSearch == InitSearch /\ [][NextSearch]_vars

\* C27: a search answers at most `limit` results, no two of them with the
\* same article_id, and its count is the number of its results.
C27_SearchBounded ==
    (svc.response /= <<>> /\ svc.response[1] = "search")
    => LET limit == svc.response[4]
           results == svc.response[5].results
       IN  /\ Len(results) <= limit
           /\ \A k, l \in DOMAIN results : k /= l => results[k] /= results[l]
           /\ svc.response[5].count = Len(results)
           /\ Range(results) \subseteq Ids(svc.products_df)

\* two terms that both match one product, and more matches than the limit
C27_Witness ==
    /\ svc.response /= <<>>
    /\ svc.response[1] = "search"
    /\ Len(svc.response[3]) = 2
    /\ svc.response[4] = 2
    /\ Len(svc.response[5].results) = 2
    /\ LET first == search_products(svc, svc.response[3][1], 3)
           second == search_products(svc, svc.response[3][2], 3)
       IN  /\ Len(first) = 1
           /\ Len(second) = 3
           /\ first[1] = second[1]


(***************************************************************************)
(* The sales history of a product                                          *)
(***************************************************************************)
\* the rows of the service's sales table for the product of the answered
\* request
RowsOfProduct ==
    SelectSeq(svc.sales_df.rows, LAMBDA r : r.article_id = svc.response[2])

\* the GET /products/{article_id}/sales request has been answered
SalesAnswered == svc.response /= <<>> /\ svc.response[1] = "sales"

RECURSIVE SumPointRevenue(_)
SumPointRevenue(data) ==
    IF data = <<>> THEN 0 ELSE Head(data).revenue + SumPointRevenue(Tail(data))

\* C28: the answer of get_sales_history holds one data point for each sales
\* row of the product dated not earlier than the product's latest sale date
\* minus days and no other, in ascending date order; its totals are
\* the sums over the returned data points; for days >= 0 a product with a
\* sales row gets a non-empty answer that contains its latest day.
C28_ExactWindow ==
    SalesAnswered =>
        LET days == svc.response[4]
            answer == svc.response[5]
            data == answer.data
            rows == RowsOfProduct
            window == {k \in DOMAIN rows : rows[k].date >= MaxDate(rows) - days}
        IN  /\ Len(data) = Cardinality(window)
            /\ \A k \in window :
                   \E n \in DOMAIN data :
                       /\ data[n].date = rows[k].date
                       /\ data[n].revenue = rows[k].total_revenue
                       /\ data[n].units_sold = rows[k].units_sold
            /\ \A m, n \in DOMAIN data : m < n => data[m].date <= data[n].date
            /\ answer.total_revenue = SumPointRevenue(data)
            /\ answer.total_units = SumUnits(data)
            /\ (days >= 0 /\ rows /= <<>>) =>
                   \E n \in DOMAIN data : data[n].date = MaxDate(rows)

\* a product whose latest sale is older than the latest sale of the table is
\* asked for with days = 0 and gets its own latest day
C28_Witness ==
    /\ SalesAnswered
    /\ svc.sales_df.rows /= <<>>
    /\ RowsOfProduct /= <<>>
    /\ svc.response[4] = 0
    /\ MaxDate(RowsOfProduct) < MaxDate(svc.sales_df.rows)
    /\ Len(svc.response[5].data) = 1
    /\ svc.response[5].total_units = 1


(***************************************************************************)
(* The Query Service next to repeated pipeline runs                        *)
(***************************************************************************)
\* Pipeline runs on the real path, one after the other, the Query Service
\* loading at any moment and answering requests once it has loaded.
NextServe == NextQuery \/ StartRun

SpecServe == InitQuery /\ [][NextServe]_vars

\* get_analytics_service returns the instance it created: its tables, and
\* the writes of the files they were read from
ServiceData(s) == <<s.products_df, s.sales_df, s.products_gen, s.sales_gen>>

ServiceKeepsData ==
    svc.pc = "loaded" => svc'.pc = "loaded" /\ ServiceData(svc') = ServiceData(svc)

LoadedEmpty ==
    /\ svc.pc = "loaded"
    /\ svc.products_df = EmptyFrame
    /\ svc.sales_df = EmptyFrame

\* C29: the service loads once: from the end of its load on, no step of a
\* pipeline run and no write of a table changes the products and sales data
\* it answers from, and a service that loaded empty tables answers every
\* request 'not found' (404), also after the pipeline has run.
C29_LoadedOnce ==
    /\ [][ServiceKeepsData]_vars
    /\ [](LoadedEmpty /\ svc.response /= <<>> => svc.response[3] = 404)

\* the service loaded before the files existed, a run has then persisted
\* both tables, and a request for a persisted product is answered 404
C29_Witness ==
    /\ LoadedEmpty
    /\ svc.files_missing
    /\ pc = "complete"
    /\ \A n \in Tables : Persisted(n) /\ disk[n].table /= EmptyFrame
    /\ svc.response /= <<>>
    /\ svc.response[1] = "sales"
    /\ svc.response[2] \in Ids(disk["sales"].table)
    /\ svc.response[3] = 404


(***************************************************************************)
(* load_data is all-or-nothing                                             *)
(***************************************************************************)
\* the load met a missing file or a failing read
LoadBroke == svc.files_missing \/ svc.read_partial

\* a table of the service was read from a file (every written file has a
\* positive generation)
FromFile(gen) == gen > 0

\* C30: when load_data has returned, a missing file or a failed read of
\* either file leaves both in-memory tables empty, and otherwise both tables
\* are the ones read from the two files: the service never holds one table
\* read from its file next to one emptied table.
C30_AllOrNothing ==
    svc.pc = "loaded" =>
        /\ LoadBroke =>
               /\ svc.products_df = EmptyFrame
               /\ svc.sales_df = EmptyFrame
               /\ ~FromFile(svc.products_gen)
               /\ ~FromFile(svc.sales_gen)
        /\ ~LoadBroke => FromFile(svc.products_gen) /\ FromFile(svc.sales_gen)

\* products.parquet was read completely, then the read of a half-written
\* sales.parquet failed, and the service holds two empty tables
C30_Witness ==
    /\ svc.pc = "loaded"
    /\ svc.read_partial
    /\ Persisted("products")
    /\ disk["products"].table /= EmptyFrame
    /\ disk["sales"].state = "partial"
    /\ svc.products_df = EmptyFrame
    /\ svc.sales_df = EmptyFrame

====
